---- MODULE Spec2Model ----
(***************************************************************************)
(* Model of the noesis backend (src/main.py, src/models.py,                *)
(* src/schemas.py): four tables (usuarios, favoritos, visitas, puntajes)   *)
(* and the HTTP handlers that read and write them.                         *)
(*                                                                         *)
(* Two levels of atomicity are modelled.  In the sequential specifications *)
(* every handler is one step (one request at a time).  In SpecConc the     *)
(* handlers that touch puntajes are split at their database round trips    *)
(* (every query and every db.commit() is one step) and run by several      *)
(* workers against the same store.                                         *)
(*                                                                         *)
(* The sequential specifications take a store that answers every round     *)
(* trip.  SpecConc also lets create_user's second db.commit() raise.       *)
(***************************************************************************)
EXTENDS Integers, FiniteSets

VARIABLES
    usuarios,    \* table "usuarios":  rows [id, email, password]
    favoritos,   \* table "favoritos": rows [id, usuario_id, clase_id, nombre_clase, imagen_path]
    visitas,     \* table "visitas":   rows [id, usuario_id, clase_id, count]
    puntajes,    \* table "puntajes":  rows [id, usuario_id, puntaje_obtenido, puntaje_total, nivel]
    reply,       \* sequential specifications: the last call, [op, email, req, status, data]
    exitosas,    \* history: <<usuario_id, clase_id>> -> registrar_visita calls answered 200
    pc,          \* SpecConc: each worker's position in its handler
    local        \* SpecConc: each worker's request and the rows its session has loaded

vars == <<usuarios, favoritos, visitas, puntajes, reply, exitosas, pc, local>>
tablas == <<usuarios, favoritos, visitas, puntajes>>

----------------------------------------------------------------------------
(* Bounds and input domains *)

MaxFavoritos == 3          \* agregar_favorito is not called on a table that holds this many rows
MaxVisitas == 3            \* registrar_visita is not called on a count that reached it
MaxPuntaje == 2            \* submitted puntaje_obtenido / puntaje_total range over 0..MaxPuntaje

Emails == {"a@x.com", "b@x.com"}
Passwords == {"pw"}
Clases == {"c1", "c2"}
Nombres == {"n1", "n2"}
Imagenes == {"i1"}
Niveles == {"Intermedio", "Avanzado"}
Workers == {"w1", "w2"}

(* Program constants: the initial score create_user and obtener_puntajes_usuario store *)
PuntajeObtenidoInicial == 0
PuntajeTotalInicial == 20
NivelInicial == "Básico"

(* schemas.py request bodies *)
UsuarioRegistro == [email : Emails, password : Passwords]
FavoritoRequest == [clase_id : Clases, nombre_clase : Nombres, imagen_path : Imagenes]
VisitaRequest == [clase_id : Clases]
PuntajeRequest == [puntaje_obtenido : 0..MaxPuntaje, puntaje_total : 0..MaxPuntaje, nivel : Niveles]

SinCuerpo == [vacio |-> TRUE]       \* a call without a request body
SinDatos == [vacio |-> TRUE]        \* a reply without a data field

----------------------------------------------------------------------------
(* The store *)

\* Column(Integer, primary_key=True): the store assigns a key no row of the table uses
NewId(tabla) == CHOOSE i \in 1..(Cardinality(tabla) + 1) : \A r \in tabla : r.id # i

\* db.query(Usuario).filter(Usuario.email == email): the matching rows
get_user_by_email(email) == {u \in usuarios : u.email = email}

FavoritosDe(uid, clase_id) == {f \in favoritos : f.usuario_id = uid /\ f.clase_id = clase_id}
VisitasDe(uid, clase_id) == {v \in visitas : v.usuario_id = uid /\ v.clase_id = clase_id}
PuntajesDe(uid) == {p \in puntajes : p.usuario_id = uid}

\* the initial row with the denominator left at 0
PuntajeInicialSinTotal(tabla, uid) ==
    [id |-> NewId(tabla), usuario_id |-> uid,
     puntaje_obtenido |-> PuntajeObtenidoInicial,
     puntaje_total |-> 0,
     nivel |-> NivelInicial]

PuntajeInicial(tabla, uid) ==
    [id |-> NewId(tabla), usuario_id |-> uid,
     puntaje_obtenido |-> PuntajeObtenidoInicial,
     puntaje_total |-> PuntajeTotalInicial,
     nivel |-> NivelInicial]

\* (obtenido / total) * 100 as an exact fraction <<numerator, denominator>> with a
\* positive denominator.  Python divides two ints into a double; for the small
\* integers of the model the doubles order exactly as the fractions do.
Porcentaje(obtenido, total) ==
    IF total < 0 THEN <<-(obtenido * 100), -total>> ELSE <<obtenido * 100, total>>

\* the comparison written ">=": a tie replaces the stored score
EsMejorOIgual(nuevo, actual) == nuevo[1] * actual[2] >= actual[1] * nuevo[2]

\* porcentaje_nuevo > porcentaje_actual
EsMejor(nuevo, actual) == nuevo[1] * actual[2] > actual[1] * nuevo[2]

Respuesta(op, email, req, status, data) ==
    [op |-> op, email |-> email, req |-> req, status |-> status, data |-> data]

\* a worker's session: the request, the rows loaded so far, the reply once computed
SinFila == [id |-> 0]
LocalIdle ==
    [op |-> "", email |-> "", req |-> SinCuerpo, usuario |-> 0, puntaje |-> SinFila,
     status |-> 0, data |-> SinDatos]

Init ==
    /\ usuarios = {}
    /\ favoritos = {}
    /\ visitas = {}
    /\ puntajes = {}
    /\ reply = Respuesta("inicio", "", SinCuerpo, 0, SinDatos)
    /\ exitosas = [k \in {} |-> 0]
    /\ pc = [w \in Workers |-> "idle"]
    /\ local = [w \in Workers |-> LocalIdle]

----------------------------------------------------------------------------
(* Sequential handlers: one request at a time, each handler one step *)

ConcUnchanged == UNCHANGED <<pc, local>>

\* a relationship declared without cascade: the child rows stay
SinCascada(tabla, uid) == tabla

\* relationship(..., cascade="all, delete-orphan"): the rows of a child table that
\* survive the deletion of user uid
Cascada(tabla, uid) == {r \in tabla : r.usuario_id # uid}

\* create_user: the User row, then the user's initial Puntaje row
create_user(email, password) ==
    LET db_user == [id |-> NewId(usuarios), email |-> email, password |-> password] IN
    /\ usuarios' = usuarios \cup {db_user}
    /\ puntajes' = puntajes \cup {PuntajeInicial(puntajes, db_user.id)}
    /\ exitosas' = [k \in DOMAIN exitosas \cup ({db_user.id} \X Clases) |->
                      IF k \in DOMAIN exitosas THEN exitosas[k] ELSE 0]

\* the handler without its existence check
SinVerificar(email) == FALSE

\* registrar_usuario's check: "if get_user_by_email(db, usuario.email)"
EmailYaRegistrado(email) == get_user_by_email(email) # {}

\* POST /usuarios/registro
registrar_usuario(usuario) ==
    /\ IF EmailYaRegistrado(usuario.email)
       THEN /\ reply' = Respuesta("registro", usuario.email, usuario, 400, SinDatos)
            /\ UNCHANGED <<usuarios, puntajes, exitosas>>
       ELSE IF get_user_by_email(usuario.email) # {}
       THEN \* Column(String, unique=True): the insert raises IntegrityError
            /\ reply' = Respuesta("registro", usuario.email, usuario, 500, SinDatos)
            /\ UNCHANGED <<usuarios, puntajes, exitosas>>
       ELSE /\ create_user(usuario.email, usuario.password)
            /\ reply' = Respuesta("registro", usuario.email, usuario, 200, SinDatos)
    /\ UNCHANGED <<favoritos, visitas>>
    /\ ConcUnchanged

\* DELETE /usuarios/{email}
eliminar_usuario(email) ==
    /\ IF get_user_by_email(email) = {}
       THEN /\ reply' = Respuesta("eliminar", email, SinCuerpo, 404, SinDatos)
            /\ UNCHANGED <<tablas, exitosas>>
       ELSE \E usuario \in get_user_by_email(email) :
            /\ usuarios' = usuarios \ {usuario}
            /\ favoritos' = Cascada(favoritos, usuario.id)
            /\ visitas' = Cascada(visitas, usuario.id)
            /\ puntajes' = Cascada(puntajes, usuario.id)
            /\ exitosas' = [k \in {j \in DOMAIN exitosas : j[1] # usuario.id} |-> exitosas[k]]
            /\ reply' = Respuesta("eliminar", email, SinCuerpo, 200, SinDatos)
    /\ ConcUnchanged

\* POST /usuarios/{email}/favoritos
agregar_favorito(email, favorito) ==
    /\ IF get_user_by_email(email) = {}
       THEN /\ reply' = Respuesta("agregar_favorito", email, favorito, 404, SinDatos)
            /\ UNCHANGED favoritos
       ELSE \E usuario \in get_user_by_email(email) :
            IF FavoritosDe(usuario.id, favorito.clase_id) # {}
            THEN /\ reply' = Respuesta("agregar_favorito", email, favorito, 400, SinDatos)
                 /\ UNCHANGED favoritos
            ELSE /\ Cardinality(favoritos) < MaxFavoritos
                 /\ favoritos' = favoritos \cup
                       {[id |-> NewId(favoritos), usuario_id |-> usuario.id,
                         clase_id |-> favorito.clase_id,
                         nombre_clase |-> favorito.nombre_clase,
                         imagen_path |-> favorito.imagen_path]}
                 /\ reply' = Respuesta("agregar_favorito", email, favorito, 200, favorito)
    /\ UNCHANGED <<usuarios, visitas, puntajes, exitosas>>
    /\ ConcUnchanged

\* DELETE /usuarios/{email}/favoritos/{clase_id}
remover_favorito(email, clase_id) ==
    /\ IF get_user_by_email(email) = {}
       THEN /\ reply' = Respuesta("remover_favorito", email, [clase_id |-> clase_id], 404, SinDatos)
            /\ UNCHANGED favoritos
       ELSE \E usuario \in get_user_by_email(email) :
            IF FavoritosDe(usuario.id, clase_id) = {}
            THEN /\ reply' = Respuesta("remover_favorito", email, [clase_id |-> clase_id], 404, SinDatos)
                 /\ UNCHANGED favoritos
            ELSE \E favorito \in FavoritosDe(usuario.id, clase_id) :     \* .first()
                 /\ favoritos' = favoritos \ {favorito}
                 /\ reply' = Respuesta("remover_favorito", email, [clase_id |-> clase_id], 200, SinDatos)
    /\ UNCHANGED <<usuarios, visitas, puntajes, exitosas>>
    /\ ConcUnchanged

\* GET /usuarios/{email}/favoritos
obtener_favoritos_usuario(email) ==
    /\ IF get_user_by_email(email) = {}
       THEN reply' = Respuesta("favoritos", email, SinCuerpo, 404, SinDatos)
       ELSE \E usuario \in get_user_by_email(email) :
            LET favoritos_list == {f \in favoritos : f.usuario_id = usuario.id} IN
            reply' = Respuesta("favoritos", email, SinCuerpo, 200,
                               [total |-> Cardinality(favoritos_list)])
    /\ UNCHANGED <<tablas, exitosas>>
    /\ ConcUnchanged

\* PUT /usuarios/{email}/favoritos/{clase_id}
actualizar_favorito(email, clase_id, favorito_actualizado) ==
    LET req == [clase_id |-> clase_id, body |-> favorito_actualizado] IN
    /\ IF get_user_by_email(email) = {}
       THEN /\ reply' = Respuesta("actualizar_favorito", email, req, 404, SinDatos)
            /\ UNCHANGED favoritos
       ELSE \E usuario \in get_user_by_email(email) :
            IF FavoritosDe(usuario.id, clase_id) = {}
            THEN /\ reply' = Respuesta("actualizar_favorito", email, req, 404, SinDatos)
                 /\ UNCHANGED favoritos
            ELSE \E favorito \in FavoritosDe(usuario.id, clase_id) :     \* .first()
                 /\ favoritos' = (favoritos \ {favorito}) \cup
                       {[favorito EXCEPT !.clase_id = favorito_actualizado.clase_id,
                                         !.nombre_clase = favorito_actualizado.nombre_clase,
                                         !.imagen_path = favorito_actualizado.imagen_path]}
                 /\ reply' = Respuesta("actualizar_favorito", email, req, 200, SinDatos)
    /\ UNCHANGED <<usuarios, visitas, puntajes, exitosas>>
    /\ ConcUnchanged

\* the counter written back unchanged
SinIncremento(visita_existente) == visita_existente

\* visita_existente.count += 1
Incrementada(visita_existente) == [visita_existente EXCEPT !.count = @ + 1]

\* POST /usuarios/{email}/visitas
registrar_visita(email, visita) ==
    /\ IF get_user_by_email(email) = {}
       THEN /\ reply' = Respuesta("registrar_visita", email, visita, 404, SinDatos)
            /\ UNCHANGED <<visitas, exitosas>>
       ELSE \E usuario \in get_user_by_email(email) :
            /\ exitosas' = [exitosas EXCEPT ![<<usuario.id, visita.clase_id>>] = @ + 1]
            /\ reply' = Respuesta("registrar_visita", email, visita, 200, SinDatos)
            /\ IF VisitasDe(usuario.id, visita.clase_id) # {}
               THEN \E visita_existente \in VisitasDe(usuario.id, visita.clase_id) :   \* .first()
                    /\ visita_existente.count < MaxVisitas
                    /\ visitas' = (visitas \ {visita_existente}) \cup {Incrementada(visita_existente)}
               ELSE visitas' = visitas \cup
                       {[id |-> NewId(visitas), usuario_id |-> usuario.id,
                         clase_id |-> visita.clase_id, count |-> 1]}
    /\ UNCHANGED <<usuarios, favoritos, puntajes>>
    /\ ConcUnchanged

\* sum(visita.count for visita in visitas)
RECURSIVE Suma(_)
Suma(filas) ==
    IF filas = {} THEN 0
    ELSE LET v == CHOOSE x \in filas : TRUE IN v.count + Suma(filas \ {v})

\* GET /usuarios/{email}/visitas
obtener_visitas_usuario(email) ==
    /\ IF get_user_by_email(email) = {}
       THEN reply' = Respuesta("visitas", email, SinCuerpo, 404, SinDatos)
       ELSE \E usuario \in get_user_by_email(email) :
            LET filas == {v \in visitas : v.usuario_id = usuario.id} IN
            reply' = Respuesta("visitas", email, SinCuerpo, 200,
                               [total_visitas |-> Suma(filas)])
    /\ UNCHANGED <<tablas, exitosas>>
    /\ ConcUnchanged

\* the reply body of GET /usuarios/{email}/puntajes
DatosPuntaje(puntaje) ==
    [puntaje_obtenido |-> puntaje.puntaje_obtenido,
     puntaje_total |-> puntaje.puntaje_total,
     nivel |-> puntaje.nivel]

\* GET /usuarios/{email}/puntajes
obtener_puntajes_usuario(email) ==
    /\ IF get_user_by_email(email) = {}
       THEN /\ reply' = Respuesta("puntajes", email, SinCuerpo, 404, SinDatos)
            /\ UNCHANGED puntajes
       ELSE \E usuario \in get_user_by_email(email) :
            IF PuntajesDe(usuario.id) = {}
            THEN LET puntaje == PuntajeInicial(puntajes, usuario.id) IN
                 /\ puntajes' = puntajes \cup {puntaje}
                 /\ reply' = Respuesta("puntajes", email, SinCuerpo, 200, DatosPuntaje(puntaje))
            ELSE \E puntaje \in PuntajesDe(usuario.id) :                 \* .first()
                 /\ reply' = Respuesta("puntajes", email, SinCuerpo, 200, DatosPuntaje(puntaje))
                 /\ UNCHANGED puntajes
    /\ UNCHANGED <<usuarios, favoritos, visitas, exitosas>>
    /\ ConcUnchanged

\* the stored row overwritten with the submitted values
Reemplazado(puntaje, puntaje_request) ==
    [puntaje EXCEPT !.puntaje_obtenido = puntaje_request.puntaje_obtenido,
                    !.puntaje_total = puntaje_request.puntaje_total,
                    !.nivel = puntaje_request.nivel]

\* the "data" of the reply of POST /usuarios/{email}/puntajes
DatosUpdate(is_new_best, puntaje_request) ==
    [is_new_best |-> is_new_best,
     puntaje_obtenido |-> puntaje_request.puntaje_obtenido,
     puntaje_total |-> puntaje_request.puntaje_total,
     nivel |-> puntaje_request.nivel]

\* only the stored denominator raises
DivisionPorCeroActual(puntaje, puntaje_request) == puntaje.puntaje_total = 0

\* "puntaje.puntaje_obtenido / puntaje.puntaje_total" or
\* "puntaje_request.puntaje_obtenido / puntaje_request.puntaje_total" raises
\* ZeroDivisionError: the handler ends before db.commit() and the call is answered 500
DivisionPorCero(puntaje, puntaje_request) ==
    puntaje.puntaje_total = 0 \/ puntaje_request.puntaje_total = 0

\* "if porcentaje_nuevo > porcentaje_actual"
NuevoEsMejor(puntaje, puntaje_request) ==
    EsMejor(Porcentaje(puntaje_request.puntaje_obtenido, puntaje_request.puntaje_total),
            Porcentaje(puntaje.puntaje_obtenido, puntaje.puntaje_total))

\* POST /usuarios/{email}/puntajes
actualizar_puntajes_usuario(email, puntaje_request) ==
    /\ IF get_user_by_email(email) = {}
       THEN /\ reply' = Respuesta("actualizar_puntajes", email, puntaje_request, 404, SinDatos)
            /\ UNCHANGED puntajes
       ELSE \E usuario \in get_user_by_email(email) :
            IF PuntajesDe(usuario.id) = {}
            THEN /\ puntajes' = puntajes \cup
                       {[id |-> NewId(puntajes), usuario_id |-> usuario.id,
                         puntaje_obtenido |-> puntaje_request.puntaje_obtenido,
                         puntaje_total |-> puntaje_request.puntaje_total,
                         nivel |-> puntaje_request.nivel]}
                 /\ reply' = Respuesta("actualizar_puntajes", email, puntaje_request, 200,
                                       DatosUpdate(TRUE, puntaje_request))
            ELSE \E puntaje \in PuntajesDe(usuario.id) :                 \* .first()
                 IF DivisionPorCero(puntaje, puntaje_request)
                 THEN /\ reply' = Respuesta("actualizar_puntajes", email, puntaje_request, 500, SinDatos)
                      /\ UNCHANGED puntajes
                 ELSE IF NuevoEsMejor(puntaje, puntaje_request)
                 THEN /\ puntajes' = (puntajes \ {puntaje}) \cup {Reemplazado(puntaje, puntaje_request)}
                      /\ reply' = Respuesta("actualizar_puntajes", email, puntaje_request, 200,
                                            DatosUpdate(TRUE, puntaje_request))
                 ELSE /\ UNCHANGED puntajes
                      /\ reply' = Respuesta("actualizar_puntajes", email, puntaje_request, 200,
                                            DatosUpdate(FALSE, puntaje_request))
    /\ UNCHANGED <<usuarios, favoritos, visitas, exitosas>>
    /\ ConcUnchanged

----------------------------------------------------------------------------
(* Sequential specifications *)

Registro == \E usuario \in UsuarioRegistro : registrar_usuario(usuario)
Eliminar == \E email \in Emails : eliminar_usuario(email)
AgregarFavorito == \E email \in Emails, favorito \in FavoritoRequest : agregar_favorito(email, favorito)
RemoverFavorito == \E email \in Emails, clase_id \in Clases : remover_favorito(email, clase_id)
ObtenerFavoritos == \E email \in Emails : obtener_favoritos_usuario(email)
ActualizarFavorito ==
    \E email \in Emails, clase_id \in Clases, favorito \in FavoritoRequest :
        actualizar_favorito(email, clase_id, favorito)
RegistrarVisita == \E email \in Emails, visita \in VisitaRequest : registrar_visita(email, visita)
ObtenerVisitas == \E email \in Emails : obtener_visitas_usuario(email)
ObtenerPuntajes == \E email \in Emails : obtener_puntajes_usuario(email)
ActualizarPuntajes ==
    \E email \in Emails, puntaje_request \in PuntajeRequest :
        actualizar_puntajes_usuario(email, puntaje_request)

\* The handlers that create, read and cascade-delete the rows of all four tables,
\* over one store.  The per-table specifications below draw the request bodies from
\* the full domains; here each table gets a narrower one.
FavoritoChico == [clase_id : Clases, nombre_clase : {"n1"}, imagen_path : Imagenes]
VisitaChica == [clase_id : {"c1"}]
PuntajeChico == {[puntaje_obtenido |-> 1, puntaje_total |-> 2, nivel |-> "Intermedio"]}

Next ==
    \/ Registro
    \/ Eliminar
    \/ \E email \in Emails, favorito \in FavoritoChico : agregar_favorito(email, favorito)
    \/ ObtenerFavoritos
    \/ \E email \in Emails, visita \in VisitaChica : registrar_visita(email, visita)
    \/ ObtenerVisitas
    \/ ObtenerPuntajes
    \/ \E email \in Emails, puntaje_request \in PuntajeChico :
           actualizar_puntajes_usuario(email, puntaje_request)

Spec == Init /\ [][Next]_vars

\* the requests that touch usuarios and favoritos
NextFavoritos ==
    \/ Registro
    \/ Eliminar
    \/ AgregarFavorito
    \/ RemoverFavorito
    \/ ObtenerFavoritos
    \/ ActualizarFavorito

SpecFavoritos == Init /\ [][NextFavoritos]_vars

\* the requests that touch usuarios and visitas
NextVisitas ==
    \/ Registro
    \/ Eliminar
    \/ RegistrarVisita
    \/ ObtenerVisitas

SpecVisitas == Init /\ [][NextVisitas]_vars

\* the requests that touch usuarios and puntajes
NextPuntajes ==
    \/ Registro
    \/ Eliminar
    \/ ObtenerPuntajes
    \/ ActualizarPuntajes

SpecPuntajes == Init /\ [][NextPuntajes]_vars

----------------------------------------------------------------------------
(* Concurrent requests: Workers serve requests against the same store.  A    *)
(* step is one database round trip (a query, or the flush and commit of      *)
(* db.commit()); what a handler computes between two round trips belongs to  *)
(* the step that follows.                                                    *)

SeqUnchanged == UNCHANGED <<favoritos, visitas>>

Recibido(op, email, req) == [LocalIdle EXCEPT !.op = op, !.email = email, !.req = req]

\* the handler ends: the reply is computed, the session is closed
Terminar(w, status, data) ==
    /\ pc' = [pc EXCEPT ![w] = "done"]
    /\ local' = [local EXCEPT ![w].status = status, ![w].data = data]

Pasar(w, lugar) == pc' = [pc EXCEPT ![w] = lugar]

\* the reply (local[w].status, local[w].data) has reached the client: the worker is
\* free for the next request
Responder(w) ==
    /\ pc[w] = "done"
    /\ pc' = [pc EXCEPT ![w] = "idle"]
    /\ local' = [local EXCEPT ![w] = LocalIdle]
    /\ UNCHANGED <<tablas, reply, exitosas>>

(* POST /usuarios/registro *)
RecibirRegistro(w, usuario) ==
    /\ pc[w] = "idle"
    /\ pc' = [pc EXCEPT ![w] = "registro_verificar"]
    /\ local' = [local EXCEPT ![w] = Recibido("registro", usuario.email, usuario)]
    /\ UNCHANGED <<tablas, reply, exitosas>>

\* "if get_user_by_email(db, usuario.email): raise HTTPException(400)"
RegistroVerificar(w) ==
    /\ pc[w] = "registro_verificar"
    /\ IF get_user_by_email(local[w].email) # {}
       THEN Terminar(w, 400, SinDatos)
       ELSE Pasar(w, "registro_usuario") /\ UNCHANGED local
    /\ UNCHANGED <<tablas, reply, exitosas>>

\* create_user: db.add(db_user); db.commit(); db.refresh(db_user)
RegistroInsertarUsuario(w) ==
    /\ pc[w] = "registro_usuario"
    /\ IF get_user_by_email(local[w].email) # {}
       THEN \* Column(String, unique=True): the insert raises IntegrityError
            /\ Terminar(w, 500, SinDatos)
            /\ UNCHANGED <<usuarios, exitosas>>
       ELSE LET db_user == [id |-> NewId(usuarios), email |-> local[w].email,
                            password |-> local[w].req.password] IN
            /\ usuarios' = usuarios \cup {db_user}
            /\ exitosas' = [k \in DOMAIN exitosas \cup ({db_user.id} \X Clases) |->
                              IF k \in DOMAIN exitosas THEN exitosas[k] ELSE 0]
            /\ pc' = [pc EXCEPT ![w] = "registro_puntaje"]
            /\ local' = [local EXCEPT ![w].usuario = db_user.id]
    /\ UNCHANGED <<puntajes, reply>>
    /\ SeqUnchanged

\* create_user: db.add(db_puntaje); db.commit(); then the handler returns 200
RegistroInsertarPuntaje(w) ==
    /\ pc[w] = "registro_puntaje"
    /\ puntajes' = puntajes \cup {PuntajeInicial(puntajes, local[w].usuario)}
    /\ Terminar(w, 200, SinDatos)
    /\ UNCHANGED <<usuarios, reply, exitosas>>
    /\ SeqUnchanged

\* create_user's second db.commit() raises (the store is locked or unreachable):
\* the exception propagates as 500 and nothing undoes the first commit
RegistroFallaPuntaje(w) ==
    /\ pc[w] = "registro_puntaje"
    /\ Terminar(w, 500, SinDatos)
    /\ UNCHANGED <<tablas, reply, exitosas>>

(* GET /usuarios/{email}/puntajes *)
RecibirObtener(w, email) ==
    /\ pc[w] = "idle"
    /\ pc' = [pc EXCEPT ![w] = "obtener_usuario"]
    /\ local' = [local EXCEPT ![w] = Recibido("puntajes", email, SinCuerpo)]
    /\ UNCHANGED <<tablas, reply, exitosas>>

ObtenerBuscarUsuario(w) ==
    /\ pc[w] = "obtener_usuario"
    /\ IF get_user_by_email(local[w].email) = {}
       THEN Terminar(w, 404, SinDatos)
       ELSE \E usuario \in get_user_by_email(local[w].email) :
            /\ pc' = [pc EXCEPT ![w] = "obtener_puntaje"]
            /\ local' = [local EXCEPT ![w].usuario = usuario.id]
    /\ UNCHANGED <<tablas, reply, exitosas>>

\* puntaje = db.query(Puntaje).filter(Puntaje.usuario_id == usuario.id).first()
ObtenerLeerPuntaje(w) ==
    /\ pc[w] = "obtener_puntaje"
    /\ IF PuntajesDe(local[w].usuario) = {}
       THEN Pasar(w, "obtener_insertar") /\ UNCHANGED local
       ELSE \E puntaje \in PuntajesDe(local[w].usuario) :
            Terminar(w, 200, DatosPuntaje(puntaje))
    /\ UNCHANGED <<tablas, reply, exitosas>>

\* "if not puntaje": db.add(puntaje); db.commit(); db.refresh(puntaje)
ObtenerInsertar(w) ==
    /\ pc[w] = "obtener_insertar"
    /\ LET puntaje == PuntajeInicial(puntajes, local[w].usuario) IN
       /\ puntajes' = puntajes \cup {puntaje}
       /\ Terminar(w, 200, DatosPuntaje(puntaje))
    /\ UNCHANGED <<usuarios, reply, exitosas>>
    /\ SeqUnchanged

(* POST /usuarios/{email}/puntajes *)
RecibirActualizar(w, email, puntaje_request) ==
    /\ pc[w] = "idle"
    /\ pc' = [pc EXCEPT ![w] = "actualizar_usuario"]
    /\ local' = [local EXCEPT ![w] = Recibido("actualizar_puntajes", email, puntaje_request)]
    /\ UNCHANGED <<tablas, reply, exitosas>>

ActualizarBuscarUsuario(w) ==
    /\ pc[w] = "actualizar_usuario"
    /\ IF get_user_by_email(local[w].email) = {}
       THEN Terminar(w, 404, SinDatos)
       ELSE \E usuario \in get_user_by_email(local[w].email) :
            /\ pc' = [pc EXCEPT ![w] = "actualizar_puntaje"]
            /\ local' = [local EXCEPT ![w].usuario = usuario.id]
    /\ UNCHANGED <<tablas, reply, exitosas>>

\* puntaje = db.query(Puntaje).filter(Puntaje.usuario_id == usuario.id).first()
ActualizarLeerPuntaje(w) ==
    /\ pc[w] = "actualizar_puntaje"
    /\ pc' = [pc EXCEPT ![w] = "actualizar_commit"]
    /\ IF PuntajesDe(local[w].usuario) = {}
       THEN UNCHANGED local
       ELSE \E puntaje \in PuntajesDe(local[w].usuario) :
            local' = [local EXCEPT ![w].puntaje = puntaje]
    /\ UNCHANGED <<tablas, reply, exitosas>>

\* db.commit() flushes the attributes the handler changed on the loaded row as
\* UPDATE puntajes SET ... WHERE id = :id; an attribute assigned the value it was
\* loaded with is not part of the UPDATE
Flush(fila, cargada, puntaje_request) ==
    [fila EXCEPT
       !.puntaje_obtenido = IF puntaje_request.puntaje_obtenido # cargada.puntaje_obtenido
                            THEN puntaje_request.puntaje_obtenido ELSE @,
       !.puntaje_total = IF puntaje_request.puntaje_total # cargada.puntaje_total
                         THEN puntaje_request.puntaje_total ELSE @,
       !.nivel = IF puntaje_request.nivel # cargada.nivel THEN puntaje_request.nivel ELSE @]

\* the comparison on the row as it was loaded, then db.commit()
ActualizarCommit(w) ==
    LET puntaje == local[w].puntaje
        puntaje_request == local[w].req IN
    /\ pc[w] = "actualizar_commit"
    /\ IF puntaje = SinFila
       THEN /\ puntajes' = puntajes \cup
                  {[id |-> NewId(puntajes), usuario_id |-> local[w].usuario,
                    puntaje_obtenido |-> puntaje_request.puntaje_obtenido,
                    puntaje_total |-> puntaje_request.puntaje_total,
                    nivel |-> puntaje_request.nivel]}
            /\ Terminar(w, 200, DatosUpdate(TRUE, puntaje_request))
       ELSE IF DivisionPorCero(puntaje, puntaje_request)
       THEN /\ Terminar(w, 500, SinDatos)
            /\ UNCHANGED puntajes
       ELSE IF NuevoEsMejor(puntaje, puntaje_request)
       THEN /\ puntajes' = {IF fila.id = puntaje.id THEN Flush(fila, puntaje, puntaje_request)
                            ELSE fila : fila \in puntajes}
            /\ Terminar(w, 200, DatosUpdate(TRUE, puntaje_request))
       ELSE /\ UNCHANGED puntajes
            /\ Terminar(w, 200, DatosUpdate(FALSE, puntaje_request))
    /\ UNCHANGED <<usuarios, reply, exitosas>>
    /\ SeqUnchanged

\* the submissions the workers receive: 100 * 1/1, 100 * 1/2, ...
PuntajeConc == [puntaje_obtenido : {1}, puntaje_total : 1..MaxPuntaje, nivel : {"Intermedio"}]

NextConc ==
    \/ \E w \in Workers, usuario \in UsuarioRegistro : RecibirRegistro(w, usuario)
    \/ \E w \in Workers : RegistroVerificar(w)
    \/ \E w \in Workers : RegistroInsertarUsuario(w)
    \/ \E w \in Workers : RegistroInsertarPuntaje(w)
    \/ \E w \in Workers : RegistroFallaPuntaje(w)
    \/ \E w \in Workers, email \in Emails : RecibirObtener(w, email)
    \/ \E w \in Workers : ObtenerBuscarUsuario(w)
    \/ \E w \in Workers : ObtenerLeerPuntaje(w)
    \/ \E w \in Workers : ObtenerInsertar(w)
    \/ \E w \in Workers, email \in Emails, puntaje_request \in PuntajeConc :
           RecibirActualizar(w, email, puntaje_request)
    \/ \E w \in Workers : ActualizarBuscarUsuario(w)
    \/ \E w \in Workers : ActualizarLeerPuntaje(w)
    \/ \E w \in Workers : ActualizarCommit(w)
    \/ \E w \in Workers : Responder(w)

SpecConc == Init /\ [][NextConc]_vars

----------------------------------------------------------------------------
(* Claims *)

EmailsRegistrados == {u.email : u \in usuarios}

\* C1: in every state reachable by Add favorite, Update favorite, Remove favorite
\* and Delete user calls there is at most one Favorite row per (user, class_id).
C1_UnFavoritoPorPar ==
    \A f \in favoritos, g \in favoritos :
        (f.usuario_id = g.usuario_id /\ f.clase_id = g.clase_id) => f = g

\* C2: Submit score for a user with a stored Score, both totals positive, replaces
\* obtained/total/level with the submitted ones iff 100*obtained_new/total_new >
\* 100*obtained_old/total_old; otherwise the stored Score is unchanged; is_new_best
\* is true exactly when the replacement happened.
C2_Paso ==
    \A u \in usuarios, p \in puntajes :
        (/\ reply'.op = "actualizar_puntajes"
         /\ reply'.email = u.email
         /\ p.usuario_id = u.id
         /\ p.puntaje_total > 0
         /\ reply'.req.puntaje_total > 0)
        => LET r == reply'.req
               mejor == 100 * r.puntaje_obtenido * p.puntaje_total
                          > 100 * p.puntaje_obtenido * r.puntaje_total
           IN /\ reply'.status = 200
              /\ reply'.data.is_new_best = mejor
              /\ puntajes' = IF mejor
                             THEN (puntajes \ {p}) \cup
                                  {[id |-> p.id, usuario_id |-> p.usuario_id,
                                    puntaje_obtenido |-> r.puntaje_obtenido,
                                    puntaje_total |-> r.puntaje_total,
                                    nivel |-> r.nivel]}
                             ELSE puntajes

C2_ReemplazaSoloSiMejor == [][C2_Paso]_vars

\* C2 witness: a submission that ties the stored percentage with other numbers
\* (2/2 against a stored 1/1) was answered is_new_best = false.
C2_Witness ==
    /\ reply.op = "actualizar_puntajes"
    /\ reply.status = 200
    /\ ~reply.data.is_new_best
    /\ \E u \in usuarios, p \in puntajes :
          /\ u.email = reply.email
          /\ p.usuario_id = u.id
          /\ p.puntaje_obtenido > 0
          /\ p.puntaje_obtenido # reply.req.puntaje_obtenido
          /\ reply.req.puntaje_obtenido * p.puntaje_total
               = p.puntaje_obtenido * reply.req.puntaje_total

\* C3: in no reachable state, including those another request sees between the
\* steps of Register, does a User row exist without a Score row for it.
C3_UsuarioConPuntaje ==
    \A u \in usuarios : PuntajesDe(u.id) # {}

\* C4: in every reachable state each user has at most one Score row, under any
\* interleaving of Register, Get score and Submit score.
C4_UnPuntajePorUsuario ==
    \A u \in usuarios : Cardinality(PuntajesDe(u.id)) <= 1

\* C5: after a successful Delete user no Favorite, Visit or Score row of that user
\* remains (nor the User row), and List favorites, List visits and Get score for
\* an email that has no User row answer 404.
C5_Paso ==
    (reply'.op = "eliminar" /\ reply'.status = 200)
    => \A u \in usuarios :
          u.email = reply'.email
          => /\ u \notin usuarios'
             /\ \A f \in favoritos' : f.usuario_id # u.id
             /\ \A v \in visitas' : v.usuario_id # u.id
             /\ \A p \in puntajes' : p.usuario_id # u.id

C5_ConsultaTrasEliminar ==
    (reply.op \in {"favoritos", "visitas", "puntajes"} /\ reply.email \notin EmailsRegistrados)
    => reply.status = 404

C5_EliminarEnCascada == [][C5_Paso]_vars /\ []C5_ConsultaTrasEliminar

\* C5 witness: a Delete user was answered 200 while the other user's favorite,
\* visit and score rows are still stored.
C5_Witness ==
    /\ reply.op = "eliminar"
    /\ reply.status = 200
    /\ \E u \in usuarios :
          /\ \E f \in favoritos : f.usuario_id = u.id
          /\ \E v \in visitas : v.usuario_id = u.id /\ v.count > 1
          /\ \E p \in puntajes : p.usuario_id = u.id

\* C6: there is at most one Visit row per (user, class_id); Record visit on a pair
\* without a row inserts one row with count 1 and on a pair with a row adds 1 to its
\* count, so the count is the number of Record visit calls that succeeded for the pair.
C6_UnaVisitaPorPar ==
    /\ \A v \in visitas : v.usuario_id \in {u.id : u \in usuarios}
    /\ \A u \in usuarios, c \in Clases :
          /\ Cardinality(VisitasDe(u.id, c)) <= 1
          /\ VisitasDe(u.id, c) = {} <=> exitosas[<<u.id, c>>] = 0
          /\ \A v \in VisitasDe(u.id, c) : v.count = exitosas[<<u.id, c>>]

\* C6 witness: a second Record visit on a pair left its single row at count 2.
C6_Witness ==
    /\ reply.op = "registrar_visita"
    /\ reply.status = 200
    /\ \E u \in usuarios :
          /\ u.email = reply.email
          /\ \E v \in VisitasDe(u.id, reply.req.clase_id) : v.count = 2

\* C7 (as stated): right after a successful Register a Score row of that user holds
\* obtained = 0, total = 20, level = "Basic".
C7_PuntajeInicialBasic ==
    (reply.op = "registro" /\ reply.status = 200)
    => \E u \in usuarios, p \in puntajes :
          /\ u.email = reply.email
          /\ p.usuario_id = u.id
          /\ p.puntaje_obtenido = 0
          /\ p.puntaje_total = 20
          /\ p.nivel = "Basic"

\* C7 (amended): right after a successful Register a Score row of that user holds
\* obtained = 0, total = 20, level = "Básico".
C7_PuntajeInicialBasico ==
    (reply.op = "registro" /\ reply.status = 200)
    => \E u \in usuarios, p \in puntajes :
          /\ u.email = reply.email
          /\ p.usuario_id = u.id
          /\ p.puntaje_obtenido = 0
          /\ p.puntaje_total = 20
          /\ p.nivel = "Básico"

\* C7 witness: a Register was answered 200 while another user was already stored.
C7_Witness ==
    /\ reply.op = "registro"
    /\ reply.status = 200
    /\ Cardinality(usuarios) = 2

\* C8: no two User rows share an email; a Register for a stored email is answered
\* 400 and leaves usuarios and puntajes unchanged, whatever Register and Delete
\* user calls came before.
C8_EmailUnico ==
    \A u \in usuarios, v \in usuarios : u.email = v.email => u = v

C8_Paso ==
    (reply'.op = "registro" /\ reply'.email \in EmailsRegistrados)
    => (reply'.status = 400 /\ usuarios' = usuarios /\ puntajes' = puntajes)

C8_RegistroDuplicado == []C8_EmailUnico /\ [][C8_Paso]_vars

\* C8 witness: a Register for the email of a user who already improved the initial
\* score was answered 400.
C8_Witness ==
    /\ reply.op = "registro"
    /\ reply.status = 400
    /\ \E u \in usuarios, p \in puntajes :
          u.email = reply.email /\ p.usuario_id = u.id /\ p.puntaje_obtenido > 0

\* C9: after a Submit score for an existing user completes (positive totals) the
\* stored Score's percentage is at least that submission's, also when two Submit
\* score calls for the user interleave their read and their write.
C9_MejorPuntaje ==
    \A w \in Workers :
        (/\ pc[w] = "done"
         /\ local[w].op = "actualizar_puntajes"
         /\ local[w].status = 200
         /\ Cardinality(PuntajesDe(local[w].usuario)) = 1)
        => \A p \in PuntajesDe(local[w].usuario) :
              p.puntaje_total > 0
              => 100 * p.puntaje_obtenido * local[w].req.puntaje_total
                   >= 100 * local[w].req.puntaje_obtenido * p.puntaje_total

\* C10: Submit score with puntaje_total = 0 for a user who has a stored Score gets
\* no success reply and leaves the stored Score unchanged; no sequence of calls
\* leaves a stored Score whose puntaje_total is 0.
C10_Paso ==
    (/\ reply'.op = "actualizar_puntajes"
     /\ reply'.req.puntaje_total = 0
     /\ \E u \in usuarios : u.email = reply'.email /\ PuntajesDe(u.id) # {})
    => (reply'.status # 200 /\ puntajes' = puntajes)

C10_TotalNoCero == \A p \in puntajes : p.puntaje_total # 0

====
